---- MODULE Spec2Model ----
(***************************************************************************)
(* Bbrother Cafe API (src/main.py, src/schemas.py): the order path.        *)
(*                                                                         *)
(* Money is counted in thousandths of the currency unit ("mills"), so that *)
(* 3.50 is 3500 and round(x, 2) is a real rounding to a multiple of 10.    *)
(* A POST /api/orders request is a process: the store operations it makes  *)
(* (one find_one per line, one insert, one read-back) are its atomic       *)
(* steps, and steps of different requests and of POST /api/menu interleave.*)
(***************************************************************************)
EXTENDS Integers, Sequences, FiniteSets, TLC

MaxReq   == 2   \* POST /api/orders requests served (concurrently)
MaxLines == 2   \* lines of one order request
MaxMenu  == 2   \* documents of the menuitem collection
MaxLimit == 3   \* largest limit given to GET /api/orders
MaxOrders == 3  \* orders in the collection when GET /api/orders is studied
MaxTime  == 2   \* latest creation time of those orders

VARIABLES
    menuitem,   \* db["menuitem"]: sequence of documents, _id = position
    order,      \* db["order"]: sequence of documents, _id = position
    clock,      \* the store's wall clock (create_document's timestamp)
    pc,         \* per request: idle, loop, insert, readback, done
    payload,    \* per request: the CreateOrderRequest being served
    idx,        \* per request: position of `it` in payload.items
    total,      \* per request: the local `total`
    lookups,    \* per request: the find_one calls made on menuitem, in order
    new_id,     \* per request: the id create_document returned (0: none)
    raised,     \* per request: the exception raised inside the handler, if any
    response,   \* per request: the HTTP response (status, detail, body)
    listed      \* the last GET /api/orders exchange

vars == <<menuitem, order, clock, pc, payload, idx, total, lookups, new_id,
          raised, response, listed>>

Reqs == 1..MaxReq

----------------------------------------------------------------------------
(* Identities.  A menu_item_id is a string; ObjectId(s) parses it or        *)
(* raises.  <<"oid", n>> is the 24-hex-digit string of ObjectId n, and      *)
(* <<"bad", n>> a string that is no ObjectId.                               *)

str_ObjectId(n) == <<"oid", n>>

is_valid_ObjectId(s) == s[1] = "oid"

ObjectId(s) == s[2]

MenuItemIdStrings == {str_ObjectId(n) : n \in 1..MaxMenu} \cup {<<"bad", 0>>}

----------------------------------------------------------------------------
(* Values of a stored price field: a number, or (in a record written before *)
(* the schema, or by another writer) a string that is no number.            *)

Num(v) == [t |-> "num", v |-> v]

NotANumber == [t |-> "text", v |-> 0]

\* float(x): the number, or ValueError
float_raises(x) == x.t # "num"

float(x) == x.v

\* round(total, 2): the nearest multiple of 0.01, a tie going to the even one.
\* (A binary float settles a decimal tie by its own expansion; the prices
\* below give totals that never end in a 5, so no tie is met.)
round2(x) ==
    LET q == x \div 10
        r == x % 10
    IN  IF r < 5 THEN 10 * q
        ELSE IF r > 5 THEN 10 * (q + 1)
        ELSE IF q % 2 = 0 THEN 10 * q ELSE 10 * (q + 1)

----------------------------------------------------------------------------
(* schemas.py *)

MenuPrices == {3500, 4}

\* Menuitem: price: float = Field(..., ge=0)
Menuitem(item) == item.price >= 0

ClaimedPrices == {1000}

Quantities == {-1, 0, 2}

\* Orderitem without the bound on quantity
Orderitem_unbounded_quantity(it) == it.unit_price >= 0

\* Orderitem: unit_price ge=0, quantity ge=1
Orderitem(it) == it.unit_price >= 0 /\ it.quantity >= 1

Lines ==
    [menu_item_id : MenuItemIdStrings, name : {"Latte"},
     unit_price : ClaimedPrices, quantity : Quantities]

Customers == {[name |-> "Ann", phone |-> "555", notes |-> "None"]}

TableNumbers == {"None", "T1"}

SeqsUpTo(S, n) == UNION {[1..k -> S] : k \in 0..n}

Payloads ==
    [items : SeqsUpTo(Lines, MaxLines), customer : Customers,
     table_number : TableNumbers]

\* CreateOrderRequest: items: List[Orderitem]
CreateOrderRequest(p) == \A k \in 1..Len(p.items) : Orderitem(p.items[k])

\* The validation errors of a body: the positions of the lines that fail
CreateOrderRequest_errors(p) ==
    <<"items", {k \in 1..Len(p.items) : ~Orderitem(p.items[k])}>>

\* Order(...) built without table_number, which then takes its default
Order_without_table(items, customer, total_amount, table_number) ==
    [items |-> items, customer |-> customer, status |-> "pending",
     total_amount |-> total_amount, table_number |-> "None"]

\* Order(...): status defaults to "pending", total_amount ge=0
Order_raises(total_amount) == total_amount < 0

Order(items, customer, total_amount, table_number) ==
    [items |-> items, customer |-> customer, status |-> "pending",
     total_amount |-> total_amount, table_number |-> table_number]

----------------------------------------------------------------------------
(* The store *)

\* db[collection].find_one({"_id": id}): the document, or None
has_doc(coll, id) == id \in 1..Len(coll)

find_one(coll, id) == coll[id]

NoPayload == [items |-> <<>>, customer |-> "None", table_number |-> "None"]

NoBody == [none |-> TRUE]

NoListing == [status |-> 0, limit |-> 0, docs |-> <<>>]

NoException == [type |-> "None", status_code |-> 0, detail |-> <<>>]

NoResponse == [status |-> 0, detail |-> <<>>, body |-> NoBody]

\* Menu records that reached the collection without the schema
LegacyMenuDocs ==
    { [_id |-> 1],
      [_id |-> 1, price |-> NotANumber],
      [_id |-> 1, price |-> Num(-4)] }

Init ==
    /\ menuitem \in {<<>>} \cup {<<d>> : d \in LegacyMenuDocs}
    /\ order = <<>>
    /\ clock = 0
    /\ pc = [r \in Reqs |-> "idle"]
    /\ payload = [r \in Reqs |-> NoPayload]
    /\ idx = [r \in Reqs |-> 0]
    /\ total = [r \in Reqs |-> 0]
    /\ lookups = [r \in Reqs |-> <<>>]
    /\ new_id = [r \in Reqs |-> 0]
    /\ raised = [r \in Reqs |-> NoException]
    /\ response = [r \in Reqs |-> NoResponse]
    /\ listed = NoListing

----------------------------------------------------------------------------
(* database.py (not among the sources; its contract is the specification's  *)
(* InsertOne / FindAll): create_document stamps the creation time and       *)
(* inserts under a fresh id; get_documents returns every document of the    *)
(* collection, in no promised order.                                        *)

create_document(coll, data, now) ==
    Append(coll, [_id |-> Len(coll) + 1, created_at |-> now] @@ data)

Permutations_of(coll) ==
    { [k \in 1..Len(coll) |-> coll[f[k]]] :
        f \in {g \in [1..Len(coll) -> 1..Len(coll)] :
                 \A a, b \in 1..Len(coll) : a # b => g[a] # g[b]} }

get_documents(coll) == Permutations_of(coll)

----------------------------------------------------------------------------
(* main.py: serialization *)

isoformat(t) == <<"iso", t>>

\* serialize_doc: _id leaves as the string field id, datetimes as ISO strings
serialize_doc(doc) ==
    [id |-> str_ObjectId(doc._id), items |-> doc.items,
     customer |-> doc.customer, status |-> doc.status,
     total_amount |-> doc.total_amount, table_number |-> doc.table_number,
     created_at |-> isoformat(doc.created_at)]

----------------------------------------------------------------------------
(* Exceptions and responses *)

HTTPException(status_code, detail) ==
    [type |-> "HTTPException", status_code |-> status_code, detail |-> detail]

Exception(type, message) ==
    [type |-> type, status_code |-> 0, detail |-> <<message>>]

Response(status, detail, body) ==
    [status |-> status, detail |-> detail, body |-> body]

\* The handler without its "except HTTPException: raise" clause
create_order_except_all(e) == Response(500, e.detail, NoBody)

\* except HTTPException: raise / except Exception as e: raise HTTPException(500, str(e))
create_order_except(e) ==
    IF e.type = "HTTPException"
    THEN Response(e.status_code, e.detail, NoBody)
    ELSE Response(500, e.detail, NoBody)

----------------------------------------------------------------------------
(* main.py: POST /api/menu *)

create_menu_item ==
    /\ Len(menuitem) < MaxMenu
    /\ \E p \in MenuPrices :
         /\ Menuitem([price |-> p])
         /\ menuitem' = create_document(menuitem, [price |-> Num(p)], clock)
    /\ UNCHANGED <<order, clock, pc, payload, idx, total, lookups, new_id,
                   raised, response, listed>>

----------------------------------------------------------------------------
(* main.py: POST /api/orders *)

\* A loop that leaves after its first pass
loop_over_after_first(items, i) == i > Len(items) \/ i > 1

\* for it in payload.items: whether the loop is over once position i is next
loop_over(items, i) == i > Len(items)

\* FastAPI validates the body against CreateOrderRequest before the handler
\* runs; a body that fails is answered 422 and create_order is not entered.
receive_order(r) ==
    /\ pc[r] = "idle"
    /\ \E p \in Payloads :
         IF CreateOrderRequest(p)
         THEN /\ payload' = [payload EXCEPT ![r] = p]
              /\ pc' = [pc EXCEPT ![r] = IF loop_over(p.items, 1) THEN "insert" ELSE "loop"]
              /\ idx' = [idx EXCEPT ![r] = 1]
              /\ UNCHANGED response
         ELSE /\ pc' = [pc EXCEPT ![r] = "done"]
              /\ response' = [response EXCEPT ![r] =
                                Response(422, CreateOrderRequest_errors(p), NoBody)]
              /\ UNCHANGED <<payload, idx>>
    /\ UNCHANGED <<menuitem, order, clock, total, lookups, new_id, raised, listed>>

\* The price taken from the request whatever the menu stores
line_price_claimed(menu_doc, it) == Num(it.unit_price)

\* menu_doc.get("price", it.unit_price)
line_price(menu_doc, it) ==
    IF "price" \in DOMAIN menu_doc THEN menu_doc.price ELSE Num(it.unit_price)

\* The loop body going on, at the claimed price, when no menu item matches
line_result_skip_missing(menu, it) ==
    IF ~is_valid_ObjectId(it.menu_item_id)
    THEN [raises |-> HTTPException(400, <<"Invalid menu_item_id", it.menu_item_id>>),
          price |-> 0]
    ELSE IF ~has_doc(menu, ObjectId(it.menu_item_id))
    THEN [raises |-> NoException, price |-> it.unit_price]
    ELSE IF float_raises(line_price(find_one(menu, ObjectId(it.menu_item_id)), it))
    THEN [raises |-> Exception("ValueError", "could not convert string to float"),
          price |-> 0]
    ELSE [raises |-> NoException,
          price |-> float(line_price(find_one(menu, ObjectId(it.menu_item_id)), it))]

\* The loop body querying with the string as given, unparsed: a malformed id
\* then matches nothing
line_result_unparsed(menu, it) ==
    IF ~is_valid_ObjectId(it.menu_item_id) \/ ~has_doc(menu, ObjectId(it.menu_item_id))
    THEN [raises |-> HTTPException(404, <<"Menu item not found", it.menu_item_id>>),
          price |-> 0]
    ELSE IF float_raises(line_price(find_one(menu, ObjectId(it.menu_item_id)), it))
    THEN [raises |-> Exception("ValueError", "could not convert string to float"),
          price |-> 0]
    ELSE [raises |-> NoException,
          price |-> float(line_price(find_one(menu, ObjectId(it.menu_item_id)), it))]

\* One pass of the loop body for line `it` (lines 107-114): the exception it
\* raises, or the price of one unit.
line_result(menu, it) ==
    IF ~is_valid_ObjectId(it.menu_item_id)
    THEN [raises |-> HTTPException(400, <<"Invalid menu_item_id", it.menu_item_id>>),
          price |-> 0]
    ELSE IF ~has_doc(menu, ObjectId(it.menu_item_id))
    THEN [raises |-> HTTPException(404, <<"Menu item not found", it.menu_item_id>>),
          price |-> 0]
    ELSE IF float_raises(line_price(find_one(menu, ObjectId(it.menu_item_id)), it))
    THEN [raises |-> Exception("ValueError", "could not convert string to float"),
          price |-> 0]
    ELSE [raises |-> NoException,
          price |-> float(line_price(find_one(menu, ObjectId(it.menu_item_id)), it))]

\* total = price * int(it.quantity)
accumulate_assign(running, price, quantity) == price * quantity

\* total += price * int(it.quantity)
accumulate(running, price, quantity) == running + price * quantity

create_order_line(r) ==
    /\ pc[r] = "loop"
    /\ LET it  == payload[r].items[idx[r]]
           res == line_result(menuitem, it)
       IN  /\ lookups' = [lookups EXCEPT ![r] =
                            IF is_valid_ObjectId(it.menu_item_id)
                            THEN Append(@, [id |-> ObjectId(it.menu_item_id),
                                            found |-> has_doc(menuitem, ObjectId(it.menu_item_id))])
                            ELSE @]
           /\ raised' = [raised EXCEPT ![r] = res.raises]
           /\ IF res.raises = NoException
              THEN /\ total' = [total EXCEPT ![r] = accumulate(@, res.price, it.quantity)]
                   /\ idx' = [idx EXCEPT ![r] = @ + 1]
                   /\ pc' = [pc EXCEPT ![r] =
                               IF loop_over(payload[r].items, idx[r] + 1)
                               THEN "insert" ELSE "loop"]
                   /\ UNCHANGED response
              ELSE /\ pc' = [pc EXCEPT ![r] = "done"]
                   /\ response' = [response EXCEPT ![r] = create_order_except(res.raises)]
                   /\ UNCHANGED <<total, idx>>
    /\ UNCHANGED <<menuitem, order, clock, payload, new_id, listed>>

\* Lines 117-123: build the Order and insert it.
create_order_insert(r) ==
    /\ pc[r] = "insert"
    /\ IF Order_raises(round2(total[r]))
       THEN /\ pc' = [pc EXCEPT ![r] = "done"]
            /\ raised' = [raised EXCEPT ![r] = Exception("ValidationError", "total_amount")]
            /\ response' = [response EXCEPT ![r] =
                              create_order_except(Exception("ValidationError", "total_amount"))]
            /\ UNCHANGED <<order, clock, new_id>>
       ELSE /\ \E now \in {clock, clock + 1} :
                 /\ clock' = now
                 /\ order' = create_document(order,
                                Order(payload[r].items, payload[r].customer,
                                      round2(total[r]), payload[r].table_number),
                                now)
            /\ new_id' = [new_id EXCEPT ![r] = Len(order) + 1]
            /\ pc' = [pc EXCEPT ![r] = "readback"]
            /\ UNCHANGED <<raised, response>>
    /\ UNCHANGED <<menuitem, payload, idx, total, lookups, listed>>

\* Lines 124-125: read the order back and answer 201 with it.
create_order_readback(r) ==
    /\ pc[r] = "readback"
    /\ pc' = [pc EXCEPT ![r] = "done"]
    /\ response' = [response EXCEPT ![r] =
                      Response(201, <<>>, serialize_doc(find_one(order, new_id[r])))]
    /\ UNCHANGED <<menuitem, order, clock, payload, idx, total, lookups, new_id,
                   raised, listed>>

\* A store call of the handler raises: find_one on either collection, or
\* create_document before it wrote.
create_order_store_error(r) ==
    /\ pc[r] \in {"loop", "insert", "readback"}
    /\ pc' = [pc EXCEPT ![r] = "done"]
    /\ raised' = [raised EXCEPT ![r] = Exception("PyMongoError", "store error")]
    /\ response' = [response EXCEPT ![r] =
                      create_order_except(Exception("PyMongoError", "store error"))]
    /\ UNCHANGED <<menuitem, order, clock, payload, idx, total, lookups, new_id, listed>>

Next ==
    \/ create_menu_item
    \/ \E r \in Reqs : receive_order(r)
    \/ \E r \in Reqs : create_order_line(r)
    \/ \E r \in Reqs : create_order_insert(r)
    \/ \E r \in Reqs : create_order_readback(r)
    \/ \E r \in Reqs : create_order_store_error(r)

Spec == Init /\ [][Next]_vars

----------------------------------------------------------------------------
(* main.py: GET /api/orders *)

Min(a, b) == IF a <= b THEN a ELSE b

Max(a, b) == IF a >= b THEN a ELSE b

\* sorted(docs, key=created_at, reverse=True): descending and stable
RECURSIVE sorted_desc(_)
sorted_desc(docs) ==
    IF docs = <<>> THEN <<>>
    ELSE LET n == Len(docs)
             s == sorted_desc(SubSeq(docs, 1, n - 1))
             d == docs[n]
             k == Cardinality({j \in 1..Len(s) : s[j].created_at >= d.created_at})
         IN  SubSeq(s, 1, k) \o <<d>> \o SubSeq(s, k + 1, Len(s))

\* docs[:limit]
slice_to(docs, limit) ==
    IF limit >= 0 THEN SubSeq(docs, 1, Min(limit, Len(docs)))
    ELSE SubSeq(docs, 1, Max(Len(docs) + limit, 0))

\* The listing truncated before it is sorted
list_orders_docs_slice_first(docs, limit) ==
    LET t == IF limit # 0 THEN slice_to(docs, limit) ELSE docs
        s == sorted_desc(t)
    IN  [k \in 1..Len(s) |-> serialize_doc(s[k])]

\* Lines 136-139 on the documents get_documents returned
list_orders_docs(docs, limit) ==
    LET s == sorted_desc(docs)
        t == IF limit # 0 THEN slice_to(s, limit) ELSE s
    IN  [k \in 1..Len(t) |-> serialize_doc(t[k])]

list_orders ==
    /\ \E limit \in -1..MaxLimit : \E docs \in get_documents(order) :
         listed' = [status |-> 200, limit |-> limit,
                    docs |-> list_orders_docs(docs, limit)]
    /\ UNCHANGED <<menuitem, order, clock, pc, payload, idx, total, lookups,
                   new_id, raised, response>>

\* get_documents raises: except Exception -> 500
list_orders_store_error ==
    /\ \E limit \in -1..MaxLimit :
         listed' = [status |-> 500, limit |-> limit, docs |-> <<>>]
    /\ UNCHANGED <<menuitem, order, clock, pc, payload, idx, total, lookups,
                   new_id, raised, response>>

\* Order collections as create_document leaves them: one order per creation
\* time of the sequence, inserted in that sequence.
RECURSIVE orders_created_at(_)
orders_created_at(times) ==
    IF times = <<>> THEN <<>>
    ELSE create_document(orders_created_at(SubSeq(times, 1, Len(times) - 1)),
                         Order(<<>>, CHOOSE c \in Customers : TRUE, 0, "None"),
                         times[Len(times)])

InitList ==
    /\ menuitem = <<>>
    /\ order \in {orders_created_at(times) : times \in SeqsUpTo(0..MaxTime, MaxOrders)}
    /\ clock = MaxTime
    /\ pc = [r \in Reqs |-> "idle"]
    /\ payload = [r \in Reqs |-> NoPayload]
    /\ idx = [r \in Reqs |-> 0]
    /\ total = [r \in Reqs |-> 0]
    /\ lookups = [r \in Reqs |-> <<>>]
    /\ new_id = [r \in Reqs |-> 0]
    /\ raised = [r \in Reqs |-> NoException]
    /\ response = [r \in Reqs |-> NoResponse]
    /\ listed = NoListing

NextList ==
    \/ list_orders
    \/ list_orders_store_error

SpecList == InitList /\ [][NextList]_vars

----------------------------------------------------------------------------
(* Vocabulary of the properties *)

done(r) == pc[r] = "done"

\* create_order was entered for request r (the body passed validation)
entered(r) == pc[r] # "idle" /\ response[r].status # 422

persisted(r) == new_id[r] # 0

items_of(r) == payload[r].items

well_formed(it) == is_valid_ObjectId(it.menu_item_id)

menu_doc_of(menu, it) == menu[ObjectId(it.menu_item_id)]

resolves(menu, it) == well_formed(it) /\ has_doc(menu, ObjectId(it.menu_item_id))

price_present(menu, it) == "price" \in DOMAIN menu_doc_of(menu, it)

price_parseable(menu, it) ==
    price_present(menu, it) /\ menu_doc_of(menu, it).price.t = "num"

\* Sum over the lines of (stored menu price x quantity)
RECURSIVE StoredPriceTotal(_, _)
StoredPriceTotal(menu, items) ==
    IF items = <<>> THEN 0
    ELSE menu_doc_of(menu, Head(items)).price.v * Head(items).quantity
         + StoredPriceTotal(menu, Tail(items))

\* Sum over the lines of (stored price where one is stored and is a number,
\* else the claimed unit_price) x quantity
RECURSIVE FallbackTotal(_, _)
FallbackTotal(menu, items) ==
    IF items = <<>> THEN 0
    ELSE (IF price_parseable(menu, Head(items))
          THEN menu_doc_of(menu, Head(items)).price.v
          ELSE Head(items).unit_price) * Head(items).quantity
         + FallbackTotal(menu, Tail(items))

\* Sum over the lines of (stored price where the item stores one, else the
\* claimed unit_price) x quantity
RECURSIVE EffectiveTotal(_, _)
EffectiveTotal(menu, items) ==
    IF items = <<>> THEN 0
    ELSE (IF price_present(menu, Head(items))
          THEN menu_doc_of(menu, Head(items)).price.v
          ELSE Head(items).unit_price) * Head(items).quantity
         + EffectiveTotal(menu, Tail(items))

----------------------------------------------------------------------------
\* C1: an accepted order whose lines all reference existing menu items with a
\* stored price has total_amount = round(sum of stored price x quantity, 2),
\* repeated references included; the claimed unit_price plays no part.
C1_TotalFromStoredPrices ==
    \A r \in Reqs :
        ( /\ persisted(r)
          /\ \A k \in 1..Len(items_of(r)) :
                resolves(menuitem, items_of(r)[k]) /\ price_present(menuitem, items_of(r)[k]) )
        => order[new_id[r]].total_amount
             = round2(StoredPriceTotal(menuitem, items_of(r)))

\* An answered order of two lines on the same item, priced 3.50 and claimed
\* at 1.00, quantity 2 each: 14.00
C1_Witness ==
    \E r \in Reqs :
        /\ response[r].status = 201
        /\ Len(items_of(r)) = 2
        /\ items_of(r)[1].menu_item_id = items_of(r)[2].menu_item_id
        /\ price_present(menuitem, items_of(r)[1])
        /\ menu_doc_of(menuitem, items_of(r)[1]).price = Num(3500)
        /\ items_of(r)[1].unit_price = 1000
        /\ response[r].body.total_amount = 14000

\* C2: when a referenced menu item exists but stores no price, or one that is
\* no number, create_order succeeds and prices that line at the claimed
\* unit_price, every other line at its stored price.
C2_FallbackWhenAbsentOrUnparseable ==
    \A r \in Reqs :
        ( /\ done(r) /\ entered(r)
          /\ \A k \in 1..Len(items_of(r)) : resolves(menuitem, items_of(r)[k])
          /\ \E k \in 1..Len(items_of(r)) : ~price_parseable(menuitem, items_of(r)[k])
          /\ raised[r].type \notin {"HTTPException", "PyMongoError", "ValidationError"} )
        => /\ response[r].status = 201
           /\ response[r].body.total_amount
                = round2(FallbackTotal(menuitem, items_of(r)))

\* C3: a request with a malformed or unmatched menu_item_id writes nothing:
\* a call answered with a reference error inserted no order, every order in
\* the collection has only well-formed, matched lines, and the collection
\* holds exactly the orders of the calls that got past every line.
C3_NoWriteOnBadReference ==
    /\ \A r \in Reqs :
          (done(r) /\ response[r].status \in {400, 404}) => ~persisted(r)
    /\ \A r \in Reqs :
          (\E k \in 1..Len(lookups[r]) : ~lookups[r][k].found) => ~persisted(r)
    /\ \A k \in 1..Len(order) : \A j \in 1..Len(order[k].items) :
          resolves(menuitem, order[k].items[j])
    /\ Len(order) = Cardinality({r \in Reqs : persisted(r)})

\* A request whose second line matches no menu item, after a valid first
\* line, answered 404 with the collection still empty
C3_Witness ==
    \E r \in Reqs :
        /\ done(r) /\ response[r].status = 404
        /\ Len(items_of(r)) = 2 /\ Len(lookups[r]) = 2
        /\ lookups[r][1].found /\ ~lookups[r][2].found
        /\ order = <<>>

\* C4: lines are processed in input order and the call aborts at the first
\* offending line: the lookups made are those of the leading lines, in order;
\* a call that did not end in a server error ends 201 only if no line
\* offended, and otherwise with InvalidReference (malformed) or
\* ReferenceNotFound (unmatched) naming the first offending line's id; no
\* line after it is looked up.
C4_AbortAtFirstOffendingLine ==
    \A r \in Reqs :
        LET its == items_of(r)
            n   == Len(lookups[r])
        IN  /\ n <= Len(its)
            /\ \A j \in 1..n :
                  /\ well_formed(its[j])
                  /\ lookups[r][j].id = ObjectId(its[j].menu_item_id)
            /\ \A j \in 1..(n - 1) : lookups[r][j].found
            /\ (n > 0 /\ ~lookups[r][n].found) =>
                  /\ done(r)
                  /\ response[r].status = 404
                  /\ response[r].detail = <<"Menu item not found", its[n].menu_item_id>>
            /\ (done(r) /\ response[r].status = 404) => (n > 0 /\ ~lookups[r][n].found)
            /\ (done(r) /\ response[r].status = 400) =>
                  /\ n < Len(its)
                  /\ ~well_formed(its[n + 1])
                  /\ \A j \in 1..n : lookups[r][j].found
                  /\ response[r].detail = <<"Invalid menu_item_id", its[n + 1].menu_item_id>>
            /\ (done(r) /\ entered(r) /\ response[r].status # 500
                  /\ (\A j \in 1..n : lookups[r][j].found)
                  /\ n < Len(its) /\ ~well_formed(its[n + 1])) =>
                  response[r].status = 400
            /\ (done(r) /\ response[r].status = 201) =>
                  (n = Len(its) /\ \A j \in 1..n : lookups[r][j].found)

\* A malformed first line followed by a well-formed second line: 400 naming
\* the first, and nothing looked up
C4_Witness ==
    \E r \in Reqs :
        /\ done(r) /\ response[r].status = 400
        /\ Len(items_of(r)) = 2
        /\ ~well_formed(items_of(r)[1]) /\ well_formed(items_of(r)[2])
        /\ lookups[r] = <<>>

\* C5 as stated: malformed and unmatched menu_item_id both answer 400, a
\* failing store call answers 500.
C5_ReferenceErrorsAre400 ==
    \A r \in Reqs :
        (done(r) /\ entered(r)) =>
            /\ (raised[r].type = "HTTPException") => response[r].status = 400
            /\ (raised[r].type \notin {"None", "HTTPException"}) => response[r].status = 500

\* C5 amended: a malformed menu_item_id answers 400, a well-formed one that
\* matches no menu item answers 404, and any other exception raised in the
\* handler (a failing store call among them) answers 500; every call that
\* entered the handler and ended has one of the statuses 201, 400, 404, 500.
C5_StatusMapping ==
    \A r \in Reqs :
        (done(r) /\ entered(r)) =>
            LET its == items_of(r)
                n   == Len(lookups[r])
            IN  /\ response[r].status \in {201, 400, 404, 500}
                /\ (raised[r].type = "None") <=> (response[r].status = 201)
                /\ (raised[r].type \notin {"None", "HTTPException"})
                      <=> (response[r].status = 500)
                /\ (raised[r].type = "HTTPException" /\ n > 0 /\ ~lookups[r][n].found)
                      => response[r].status = 404
                /\ (raised[r].type = "HTTPException" /\ (n = 0 \/ lookups[r][n].found))
                      => (response[r].status = 400 /\ ~well_formed(its[n + 1]))

\* One call answered 404 for an unmatched id beside one answered 500 because
\* the store failed
C5_Witness ==
    \E r, q \in Reqs :
        /\ done(r) /\ response[r].status = 404
        /\ done(q) /\ response[q].status = 500 /\ raised[q].type = "PyMongoError"

\* C7: every order create_order persists has status "pending", the
\* request's lines verbatim and in order (claimed unit_price included), and
\* the request's customer and table_number.
C7_OrderEchoesRequest ==
    /\ \A r \in Reqs :
          persisted(r) =>
              /\ has_doc(order, new_id[r])
              /\ order[new_id[r]].status = "pending"
              /\ order[new_id[r]].items = payload[r].items
              /\ order[new_id[r]].customer = payload[r].customer
              /\ order[new_id[r]].table_number = payload[r].table_number
    /\ \A k \in 1..Len(order) : \E r \in Reqs : new_id[r] = k

\* An order for table T1 whose line claims 1.00 against a stored 3.50
C7_Witness ==
    \E r \in Reqs :
        /\ persisted(r)
        /\ payload[r].table_number = "T1"
        /\ Len(items_of(r)) >= 1
        /\ price_present(menuitem, items_of(r)[1])
        /\ menu_doc_of(menuitem, items_of(r)[1]).price = Num(3500)
        /\ order[new_id[r]].items[1].unit_price = 1000

\* Requests with a line of quantity <= 0, and that validation refuses them all
NonPositiveQuantity(p) == \E k \in 1..Len(p.items) : p.items[k].quantity <= 0

NonPositiveQuantityIsInvalid ==
    \A p \in Payloads : NonPositiveQuantity(p) => ~CreateOrderRequest(p)

\* C8: a request with a line of quantity <= 0 is rejected before create_order
\* runs (422) and writes nothing; every line of every persisted order has
\* quantity >= 1 and every persisted order has total_amount >= 0.
C8_QuantityAndTotalBounds ==
    /\ NonPositiveQuantityIsInvalid
    /\ \A r \in Reqs :
          /\ entered(r) => ~NonPositiveQuantity(payload[r])
          /\ response[r].status = 422 =>
                (done(r) /\ ~persisted(r) /\ response[r].detail[2] # {})
    /\ \A k \in 1..Len(order) :
          /\ order[k].total_amount >= 0
          /\ \A j \in 1..Len(order[k].items) : order[k].items[j].quantity >= 1

\* One request rejected with 422 beside one whose order was persisted
C8_Witness ==
    \E r, q \in Reqs :
        /\ response[r].status = 422
        /\ persisted(q) /\ Len(items_of(q)) = 2

\* C9: a successful create_order for N lines made exactly N lookups on the
\* menu, one per line in input order, all before its one insert; and no step
\* of create_order changes the menu collection.
C9_LookupsThenOneInsert ==
    /\ [](\A r \in Reqs :
            /\ (pc[r] \in {"insert", "readback"} \/ persisted(r)
                   \/ (done(r) /\ response[r].status = 201)) =>
                  /\ Len(lookups[r]) = Len(items_of(r))
                  /\ \A k \in 1..Len(items_of(r)) :
                        str_ObjectId(lookups[r][k].id) = items_of(r)[k].menu_item_id
            /\ pc[r] \in {"idle", "loop", "insert"} => ~persisted(r)
            /\ (done(r) /\ response[r].status = 201) =>
                  (persisted(r) /\ \A q \in Reqs : new_id[q] = new_id[r] => q = r))
    /\ [](Len(order) = Cardinality({r \in Reqs : persisted(r)}))
    /\ [][ (\E r \in Reqs : pc'[r] # pc[r]) =>
             /\ menuitem' = menuitem
             /\ \A r \in Reqs :
                   /\ (lookups'[r] # lookups[r]) => (pc[r] = "loop" /\ order' = order)
                   /\ (pc[r] = "insert" /\ pc'[r] = "readback") =>
                         (Len(order') = Len(order) + 1 /\ lookups' = lookups)
                   /\ (pc[r] # "insert" /\ pc'[r] # pc[r]) => order' = order ]_vars

\* A two-line order answered 201
C9_Witness ==
    \E r \in Reqs :
        /\ done(r) /\ response[r].status = 201
        /\ Len(lookups[r]) = 2 /\ Len(order) = 1

\* C10 as stated: under any interleaving, each persisted order's total is
\* the rounded sum of (price stored for the referenced item x quantity), and
\* each completed request has its own document.
C10_TotalsFromStoredPricesOnly ==
    /\ \A k \in 1..Len(order) :
          /\ \A j \in 1..Len(order[k].items) :
                /\ resolves(menuitem, order[k].items[j])
                /\ price_parseable(menuitem, order[k].items[j])
          /\ order[k].total_amount = round2(StoredPriceTotal(menuitem, order[k].items))
    /\ \A r \in Reqs :
          (done(r) /\ response[r].status = 201) =>
              /\ has_doc(order, new_id[r])
              /\ \A q \in Reqs : (q # r /\ persisted(q)) => new_id[q] # new_id[r]

\* C10 amended: under any interleaving, each persisted order's total is the
\* rounded sum over its lines of (the price stored for the referenced item,
\* or the line's claimed unit_price where that item stores no price) x
\* quantity, and each completed request has its own document.
C10_TotalsUnderInterleaving ==
    /\ \A k \in 1..Len(order) :
          /\ \A j \in 1..Len(order[k].items) :
                /\ resolves(menuitem, order[k].items[j])
                /\ price_present(menuitem, order[k].items[j])
                      => price_parseable(menuitem, order[k].items[j])
          /\ order[k].total_amount = round2(EffectiveTotal(menuitem, order[k].items))
    /\ \A r \in Reqs :
          (done(r) /\ response[r].status = 201) =>
              /\ has_doc(order, new_id[r])
              /\ response[r].body = serialize_doc(order[new_id[r]])
              /\ order[new_id[r]].items = payload[r].items
              /\ \A q \in Reqs : (q # r /\ persisted(q)) => new_id[q] # new_id[r]

\* Two requests overlapping: one, of two lines, answered 201 with the order
\* inserted second, while the other has inserted the first order and not yet
\* read it back; the menu grew to two items meanwhile
C10_Witness ==
    \E r, q \in Reqs :
        /\ done(r) /\ response[r].status = 201 /\ new_id[r] = 2
        /\ Len(items_of(r)) = 2
        /\ pc[q] = "readback" /\ new_id[q] = 1
        /\ Len(menuitem) = 2

----------------------------------------------------------------------------
\* C6: with distinct creation times, list_orders(limit) returns the
\* min(limit, n) most recently created orders, newest first, for limit >= 1
\* and all n orders, newest first, for limit = 0.
DistinctCreationTimes ==
    \A a, b \in 1..Len(order) :
        a # b => order[a].created_at # order[b].created_at

NewerThan(k) ==
    Cardinality({j \in 1..Len(order) : order[j].created_at > order[k].created_at})

C6_ListNewestFirst ==
    (listed.status = 200 /\ listed.limit >= 0 /\ DistinctCreationTimes) =>
        LET n == Len(order)
            m == IF listed.limit = 0 THEN n ELSE Min(listed.limit, n)
        IN  /\ Len(listed.docs) = m
            /\ \A i \in 1..m : \E k \in 1..n :
                  /\ NewerThan(k) = i - 1
                  /\ listed.docs[i] = serialize_doc(order[k])

\* Three orders with distinct creation times, not inserted in time order,
\* listed with limit 2
C6_Witness ==
    /\ listed.status = 200 /\ listed.limit = 2
    /\ Len(order) = 3 /\ DistinctCreationTimes
    /\ order[1].created_at > order[2].created_at
    /\ Len(listed.docs) = 2

====
